---------------------------- MODULE Spec2Model ----------------------------
(***************************************************************************)
(* A model of obvi's bounding-volume hierarchy: the axis-aligned box       *)
(* (include/obvi/util/bbox.hpp), the Morton coder (include/obvi/util/      *)
(* math.hpp), the parallel radix sort, find_split and the recursive        *)
(* builder (util/bvh.cpp) and the query iterator (include/obvi/util/       *)
(* bvh.hpp).                                                               *)
(*                                                                         *)
(* Numbers.  The boxes, points and segments of the model have whole-number *)
(* coordinates of small magnitude.  A float f is stored as the integer     *)
(* 2*f, so that the "* 0.5" of center() and of the segment set-up is exact *)
(* (Half); sums and differences keep that unit, and a product of two       *)
(* stored values is the float product times 4 on both sides of every       *)
(* comparison it appears in.  Float rounding plays no part at these        *)
(* magnitudes.  A quotient that may be infinite or NaN is kept as a        *)
(* fraction [num, den] (Ratio).                                            *)
(*                                                                         *)
(* Indices are zero-based as in the source; At(s, i) reads element i.      *)
(***************************************************************************)
EXTENDS Integers, Sequences, FiniteSets, TLC

(***************************************************************************)
(* Bounds of the model.                                                    *)
(***************************************************************************)
\* Largest number of boxes a modelled build takes.
MaxN == 3

\* Largest number of boxes of a build whose tree is kept for comparison with a
\* later build (SpecRebuild).
MaxRebuildN == 2

\* Largest number of boxes of a build that is queried (SpecQuery).
MaxQueryN == 2

\* Largest number of boxes of a build that two queries run over (SpecPair).
MaxPairN == 2

\* Largest number of entries of a sorted vector, and largest team of threads
\* that sorts it (SpecSort).
MaxSortN == 2
MaxThreads == 3

\* Largest coordinate of the grid the intersection tests take their points
\* from (SpecBox); the smallest is -1.
MaxCoord == 3

\* Largest value of the bits above the low ten in an argument of
\* expand_bits_30 (SpecMorton).
MaxHigh == 2

\* Largest length of a key vector given to find_split, sorted or not
\* (SpecSplit); sorted vectors are tried up to two entries longer.
MaxSplitLen == 5

(***************************************************************************)
(* 32-bit unsigned arithmetic.                                             *)
(***************************************************************************)
RECURSIVE Pow2(_)
Pow2(n) == IF n = 0 THEN 1 ELSE 2 * Pow2(n - 1)

RECURSIVE BitAnd(_, _)
BitAnd(a, b) ==
    IF a = 0 \/ b = 0 THEN 0
    ELSE (a % 2) * (b % 2) + 2 * BitAnd(a \div 2, b \div 2)

RECURSIVE BitXor(_, _)
BitXor(a, b) ==
    IF a = 0 THEN b
    ELSE IF b = 0 THEN a
    ELSE ((a + b) % 2) + 2 * BitXor(a \div 2, b \div 2)

RECURSIVE BitLen(_)
BitLen(x) == IF x = 0 THEN 0 ELSE 1 + BitLen(x \div 2)

\* math.hpp: (x > 0) ? __builtin_clz(x) : 32
count_leading_zeros(x) == IF x > 0 THEN 32 - BitLen(x) ELSE 32

(***************************************************************************)
(* A uint32_t whose value may pass 2^31 is kept as two 16-bit halves.      *)
(***************************************************************************)
Word(h, l) == [hi |-> h, lo |-> l]

ToWord(x) == Word(x \div 65536, x % 65536)

\* Only used on words below 2^31.
FromWord(w) == w.hi * 65536 + w.lo

WordAnd(a, m) == Word(BitAnd(a.hi, m.hi), BitAnd(a.lo, m.lo))

WordAdd(a, b) ==
    LET l == a.lo + b.lo
    IN  Word((a.hi + b.hi + (l \div 65536)) % 65536, l % 65536)

\* a << s, 0 <= s < 32, bits shifted past bit 31 dropped.
WordShl(a, s) ==
    IF s >= 16 THEN Word((a.lo * Pow2(s - 16)) % 65536, 0)
    ELSE LET l == a.lo * Pow2(s)
         IN  Word((a.hi * Pow2(s) + (l \div 65536)) % 65536, l % 65536)

\* a * k modulo 2^32, by shift and add over the bits of k (bit s of k first).
RECURSIVE WordMulFrom(_, _, _)
WordMulFrom(a, k, s) ==
    IF k = 0 THEN Word(0, 0)
    ELSE LET rest == WordMulFrom(a, k \div 2, s + 1)
         IN  IF k % 2 = 1 THEN WordAdd(WordShl(a, s), rest) ELSE rest

WordMul(a, k) == WordMulFrom(a, k, 0)

\* An expansion that would skip the first mask, v & 0x3FF.
expand_bits_30_unmasked(v) ==
    LET v0 == ToWord(v)
        v1 == WordAnd(WordMul(v0, 65537), Word(65280, 255))
        v2 == WordAnd(WordMul(v1, 257), Word(3840, 61455))
        v3 == WordAnd(WordMul(v2, 17), Word(49932, 12483))
        v4 == WordAnd(WordMul(v3, 5), Word(18724, 37449))
    IN  FromWord(v4)

\* math.hpp: the mask and the four multiply-and-mask steps.  The masks
\* 0xFF0000FF, 0x0F00F00F, 0xC30C30C3, 0x49249249 are given by halves.
expand_bits_30(v) ==
    LET v0 == ToWord(BitAnd(v, 1023))
        v1 == WordAnd(WordMul(v0, 65537), Word(65280, 255))
        v2 == WordAnd(WordMul(v1, 257), Word(3840, 61455))
        v3 == WordAnd(WordMul(v2, 17), Word(49932, 12483))
        v4 == WordAnd(WordMul(v3, 5), Word(18724, 37449))
    IN  FromWord(v4)

morton_30_max == 1024

(***************************************************************************)
(* Floats that may be infinite or NaN: a fraction num/den of stored        *)
(* values.  den = 0 is +inf (num > 0), -inf (num < 0) or NaN (num = 0).    *)
(***************************************************************************)
Ratio(n, d) == [num |-> n, den |-> d]

IsNaN(r) == r.den = 0 /\ r.num = 0

\* r < k for a whole number k, as the float comparison decides it (false on NaN).
RatioLess(r, k) ==
    IF r.den = 0 THEN r.num < 0
    ELSE IF r.den > 0 THEN r.num < k * r.den
    ELSE r.num > k * r.den

\* k < r likewise.
RatioGreater(r, k) ==
    IF r.den = 0 THEN r.num > 0
    ELSE IF r.den > 0 THEN r.num > k * r.den
    ELSE r.num < k * r.den

\* uint32_t(x) of a float already clamped to [0, 1023]: truncation.  The
\* conversion of a NaN is undefined; nan is the value the build produces.
TruncU32(r, nan) ==
    IF IsNaN(r) THEN nan
    ELSE IF r.den > 0 THEN r.num \div r.den
    ELSE (-r.num) \div (-r.den)

\* math.hpp: x = std::min(std::max(x, 0), 1023), with std::max(a, b) being
\* (a < b) ? b : a and std::min(a, b) being (b < a) ? b : a, which both pass
\* a NaN first argument through.
ClampCoord(r) ==
    LET lo == IF RatioLess(r, 0) THEN Ratio(0, 1) ELSE r
    IN  IF RatioGreater(lo, morton_30_max - 1)
        THEN Ratio(morton_30_max - 1, 1) ELSE lo

morton_encode_30(x, y, z, nan) ==
    LET xx == expand_bits_30(TruncU32(ClampCoord(x), nan))
        yy == expand_bits_30(TruncU32(ClampCoord(y), nan))
        zz == expand_bits_30(TruncU32(ClampCoord(z), nan))
    IN  (xx * 4) + (yy * 2) + zz

(***************************************************************************)
(* vec3 and bbox.                                                          *)
(***************************************************************************)
\* The stored value of the whole number n.
Whole(n) == n + n

\* f * 0.5 of a stored value (always even where the source halves).
Half(f) == f \div 2

Abs(f) == IF f < 0 THEN -f ELSE f
Min(a, b) == IF b < a THEN b ELSE a
Max(a, b) == IF a < b THEN b ELSE a

Vec(x, y, z) == <<Whole(x), Whole(y), Whole(z)>>
VAdd(a, b) == [i \in 1..3 |-> a[i] + b[i]]
VSub(a, b) == [i \in 1..3 |-> a[i] - b[i]]
VHalf(a) == [i \in 1..3 |-> Half(a[i])]
VAbs(a) == [i \in 1..3 |-> Abs(a[i])]

Box(mn, mx) == [min_pt |-> mn, max_pt |-> mx]

\* bbox(): min_pt(1,0,0), max_pt(-1,0,0); also what clear() sets.
EmptyBox == Box(Vec(1, 0, 0), Vec(-1, 0, 0))

is_empty(b) == b.min_pt[1] > b.max_pt[1]

center(b) == VHalf(VAdd(b.min_pt, b.max_pt))

\* bbox::expand(const bbox&)
expand(b, box) ==
    IF is_empty(b) THEN Box(box.min_pt, box.max_pt)
    ELSE Box([i \in 1..3 |-> Min(b.min_pt[i], box.min_pt[i])],
             [i \in 1..3 |-> Max(b.max_pt[i], box.max_pt[i])])

\* An expand(pt) that would merge the point into an empty box's corners.
expand_pt_merge(b, pt) ==
    Box([i \in 1..3 |-> Min(b.min_pt[i], pt[i])],
        [i \in 1..3 |-> Max(b.max_pt[i], pt[i])])

\* bbox::expand(const vec3r&)
expand_pt(b, pt) ==
    IF is_empty(b) THEN Box(pt, pt)
    ELSE Box([i \in 1..3 |-> Min(b.min_pt[i], pt[i])],
             [i \in 1..3 |-> Max(b.max_pt[i], pt[i])])

\* A point test that would leave out the faces through min_pt.
intersects_point_open(b, pt) ==
    /\ pt[1] > b.min_pt[1] /\ pt[1] <= b.max_pt[1]
    /\ pt[2] > b.min_pt[2] /\ pt[2] <= b.max_pt[2]
    /\ pt[3] > b.min_pt[3] /\ pt[3] <= b.max_pt[3]

intersects_point(b, pt) ==
    /\ pt[1] >= b.min_pt[1] /\ pt[1] <= b.max_pt[1]
    /\ pt[2] >= b.min_pt[2] /\ pt[2] <= b.max_pt[2]
    /\ pt[3] >= b.min_pt[3] /\ pt[3] <= b.max_pt[3]

\* lhs > rhs + eps, for products of stored values: both sides are whole
\* multiples of 1/4 and eps = 2^-23 is smaller than that step.
GreaterEps(lhs, rhs) == lhs > rhs

intersects_segment_precalc(b, d, seg_a_d, ad) ==
    LET e == VHalf(VSub(b.max_pt, b.min_pt))
        c == VSub(seg_a_d, VHalf(VAdd(b.max_pt, b.min_pt)))
    IN  IF Abs(c[1]) > e[1] + ad[1] THEN FALSE
        ELSE IF Abs(c[2]) > e[2] + ad[2] THEN FALSE
        ELSE IF Abs(c[3]) > e[3] + ad[3] THEN FALSE
        ELSE IF GreaterEps(Abs(d[2]*c[3] - d[3]*c[2]), e[2]*ad[3] + e[3]*ad[2])
             THEN FALSE
        ELSE IF GreaterEps(Abs(d[3]*c[1] - d[1]*c[3]), e[3]*ad[1] + e[1]*ad[3])
             THEN FALSE
        ELSE IF GreaterEps(Abs(d[1]*c[2] - d[2]*c[1]), e[1]*ad[2] + e[2]*ad[1])
             THEN FALSE
        ELSE TRUE

intersects_segment(b, seg_a, seg_b) ==
    IF is_empty(b) THEN FALSE
    ELSE LET d == VHalf(VSub(seg_b, seg_a))
         IN  intersects_segment_precalc(b, d, VAdd(seg_a, d), VAbs(d))

intersects_box(b, box) ==
    IF is_empty(b) \/ is_empty(box) THEN FALSE
    ELSE /\ b.min_pt[1] <= box.max_pt[1] /\ b.max_pt[1] >= box.min_pt[1]
         /\ b.min_pt[2] <= box.max_pt[2] /\ b.max_pt[2] >= box.min_pt[2]
         /\ b.min_pt[3] <= box.max_pt[3] /\ b.max_pt[3] >= box.min_pt[3]

\* The reals of the ray test: finite stored values and the two infinities.
Fin(f) == Ratio(f, 1)
PosInf == Ratio(1, 0)
NegInf == Ratio(-1, 0)

\* std::isinf
isinf(r) == r.den = 0 /\ r.num # 0

\* a < b between finite values and infinities.
RealLess(a, b) ==
    IF isinf(a) /\ isinf(b) THEN a.num < b.num
    ELSE IF isinf(a) THEN a.num < 0
    ELSE IF isinf(b) THEN b.num > 0
    ELSE a.num < b.num

\* std::min and std::max
RealMin(a, b) == IF RealLess(b, a) THEN b ELSE a
RealMax(a, b) == IF RealLess(a, b) THEN b ELSE a

\* The loop of intersects_ray from axis i on, and its closing comparison.
RECURSIVE ray_loop(_, _, _, _, _, _)
ray_loop(b, origin, inv_norm_dir, i, tmin, tmax) ==
    IF i > 3 THEN ~RealLess(tmax, tmin) /\ ~RealLess(tmax, Fin(0))
    ELSE IF ~isinf(inv_norm_dir[i])
    THEN LET t0 == Fin((b.min_pt[i] - origin[i]) * inv_norm_dir[i].num)
             t1 == Fin((b.max_pt[i] - origin[i]) * inv_norm_dir[i].num)
         IN  ray_loop(b, origin, inv_norm_dir, i + 1,
                      RealMax(tmin, RealMin(t0, t1)),
                      RealMin(tmax, RealMax(t0, t1)))
    ELSE IF origin[i] < b.min_pt[i] \/ origin[i] > b.max_pt[i] THEN FALSE
    ELSE ray_loop(b, origin, inv_norm_dir, i + 1, tmin, tmax)

\* A ray test that would miss a box the ray only runs along the boundary of.
intersects_ray_interior(b, origin, inv_norm_dir) ==
    /\ ~is_empty(b)
    /\ ray_loop(b, origin, inv_norm_dir, 1, NegInf, PosInf)
    /\ \A i \in 1..3 :
           isinf(inv_norm_dir[i]) =>
               (b.min_pt[i] < origin[i] /\ origin[i] < b.max_pt[i])

intersects_ray(b, origin, inv_norm_dir) ==
    IF is_empty(b) THEN FALSE
    ELSE ray_loop(b, origin, inv_norm_dir, 1, NegInf, PosInf)

(***************************************************************************)
(* Sequences read with the source's zero-based indices.                    *)
(***************************************************************************)
At(s, i) == s[i + 1]

(***************************************************************************)
(* The sort entries and the tree nodes.                                    *)
(***************************************************************************)
\* struct obj { uint32_t code; uint32_t idx; }
Obj(c, i) == [code |-> c, idx |-> i]

\* node::num.  The word is kept as its top bit and its 31 low bits.
LeafNum(idx) == [top |-> 1, low |-> idx]
InternalNum(count) == [top |-> 0, low |-> count]

Node(b, n) == [box |-> b, num |-> n]

\* num > 0x7FFFFFFF
is_leaf(nd) == nd.num.top = 1

\* A subtree size that would count both boxes of every object below the node.
subtree_size_doubled(nd) == IF is_leaf(nd) THEN 1 ELSE 2 * nd.num.low

subtree_size(nd) == IF is_leaf(nd) THEN 1 ELSE nd.num.low

max_size == 1073741824

(***************************************************************************)
(* find_split.                                                             *)
(***************************************************************************)
\* A search whose step would be halved rounding down.
RECURSIVE find_split_loop_floor(_, _, _, _, _, _)
find_split_loop_floor(objs, first_code, common_prefix, last, split, step) ==
    LET step1 == step \div 2
        newSplit == split + step1
        accept ==
            /\ newSplit < last
            /\ count_leading_zeros(BitXor(first_code, At(objs, newSplit).code))
                   > common_prefix
        split1 == IF accept THEN newSplit ELSE split
    IN  IF step1 > 1
        THEN find_split_loop_floor(objs, first_code, common_prefix, last, split1, step1)
        ELSE split1

\* One turn of the do-while loop, then the test "while(step > 1)".
RECURSIVE find_split_loop(_, _, _, _, _, _)
find_split_loop(objs, first_code, common_prefix, last, split, step) ==
    LET step1 == (step + 1) \div 2
        newSplit == split + step1
        accept ==
            /\ newSplit < last
            /\ count_leading_zeros(BitXor(first_code, At(objs, newSplit).code))
                   > common_prefix
        split1 == IF accept THEN newSplit ELSE split
    IN  IF step1 > 1
        THEN find_split_loop(objs, first_code, common_prefix, last, split1, step1)
        ELSE split1

\* A split that would round the middle of a range of equal codes up.
find_split_round_up(objs, first, last) ==
    LET first_code == At(objs, first).code
        last_code == At(objs, last).code
    IN  IF first_code = last_code THEN (first + last + 1) \div 2
        ELSE find_split_loop(objs, first_code,
                             count_leading_zeros(BitXor(first_code, last_code)),
                             last, first, last - first)

find_split(objs, first, last) ==
    LET first_code == At(objs, first).code
        last_code == At(objs, last).code
    IN  IF first_code = last_code THEN (first + last) \div 2
        ELSE find_split_loop(objs, first_code,
                             count_leading_zeros(BitXor(first_code, last_code)),
                             last, first, last - first)

\* A child box taken from the first object of the range alone.
expand_range_first_only(b, boxes, objs, i, last) ==
    IF i > last THEN b ELSE expand(b, At(boxes, At(objs, i).idx))

(***************************************************************************)
(* The recursive builder, generate() of the anonymous namespace.           *)
(***************************************************************************)
\* curr_box.clear(); for(i = first; i <= last; ++i) curr_box.expand(boxes[objs[i].idx])
RECURSIVE expand_range(_, _, _, _, _)
expand_range(b, boxes, objs, i, last) ==
    IF i > last THEN b
    ELSE expand_range(expand(b, At(boxes, At(objs, i).idx)), boxes, objs, i + 1, last)

RECURSIVE generate(_, _, _, _, _, _)
generate(tree, boxes, objs, curr_box, first, last) ==
    IF first = last
    THEN Append(tree, Node(curr_box, LeafNum(At(objs, first).idx)))
    ELSE LET t0 == Append(tree, Node(curr_box, InternalNum(last - first + 1)))
             split == find_split(objs, first, last)
             lbox == expand_range(EmptyBox, boxes, objs, first, split)
             t1 == generate(t0, boxes, objs, lbox, first, split)
             rbox == expand_range(EmptyBox, boxes, objs, split + 1, last)
         IN  generate(t1, boxes, objs, rbox, split + 1, last)

(***************************************************************************)
(* make_obj_list up to the call of the sort.                               *)
(***************************************************************************)
\* for(auto &box : boxes) root_box.expand(box)
RECURSIVE root_of(_, _, _)
root_of(b, boxes, i) ==
    IF i >= Len(boxes) THEN b
    ELSE root_of(expand(b, At(boxes, i)), boxes, i + 1)

\* (center[a] - root_box.min_pt[a]) * (1024.0f / (root_box.max_pt[a] - root_box.min_pt[a]))
scaled_center(box, root_box, a) ==
    Ratio((center(box)[a] - root_box.min_pt[a]) * morton_30_max,
          root_box.max_pt[a] - root_box.min_pt[a])

obj_codes(boxes, root_box, nan) ==
    [i \in 1..Len(boxes) |->
        Obj(morton_encode_30(scaled_center(boxes[i], root_box, 1),
                             scaled_center(boxes[i], root_box, 2),
                             scaled_center(boxes[i], root_box, 3), nan),
            i - 1)]

(***************************************************************************)
(* The inputs of the model.                                                *)
(***************************************************************************)
BoxA == Box(Vec(0, 0, 0), Vec(2, 2, 2))
BoxB == Box(Vec(2, 2, 2), Vec(4, 4, 4))

\* Two ordinary boxes that share the corner (2,2,2), and the empty box.
BoxSet == {BoxA, BoxB, EmptyBox}

SeqsUpTo(S, n) == UNION {[1..k -> S] : k \in 0..n}

\* A caller's vector of boxes: its size() and its elements.  The vectors too
\* long to build (size max_size and max_size + 1) are given by their size
\* alone; generate() reads nothing else of them before the size gate.
BoxVector(s) == [n |-> Len(s), elems |-> s]
HugeVectors == {[n |-> max_size + k, elems |-> <<>>] : k \in 0..1}
Inputs(maxn) == {BoxVector(s) : s \in SeqsUpTo(BoxSet, maxn)} \cup HugeVectors

\* What the conversion uint32_t(NaN) yields, masked to 10 bits: 0 where the
\* hardware returns 0 or 0x80000000.., 1023 where it returns all ones.
NanCast == {0, 1023}

(***************************************************************************)
(* State.                                                                  *)
(***************************************************************************)
VARIABLES
    tree,        \* bvh::tree
    num_leaves,  \* bvh::num_leaves
    reserved,    \* the argument of the last tree.reserve()
    pc,          \* where bvh::generate() stands: idle, keys, sort, emit, crashed
    boxes,       \* the argument of the running (or last) generate()
    root_box,    \* generate()'s root_box
    objs,        \* generate()'s objs
    ret,         \* what the last generate() returned: none, true, false
    wiped,       \* whether the last generate()'s clear() dropped a tree
    nan_cast,    \* what uint32_t(NaN) yields on this build (NanCast)
    ref,         \* the first successful build over >= 1 boxes, where recorded
    q_live,      \* whether a bvh::query object exists
    next_node,   \* query::next_node
    intersects,  \* query::intersects, the predicate functor
    q_ret,       \* what the last query::next() returned: none, true, false
    q_out,       \* the values next() has stored in out_idx since the last reset
    q_tested,    \* the node indices the predicate was evaluated on since then
    q_missed,    \* those of them whose box the predicate rejected
    q_made,      \* the functor the query was constructed or last re-armed with
    q_reset_mid, \* whether the last reset() came in the middle of a drain
    other,       \* a second bvh::query object over the same bvh
    s_threads,   \* omp_get_num_threads() of the sort's parallel regions
    s_in,        \* the vector parallel_radix_sort() was called on
    s_objs,      \* parallel_radix_sort: objs
    s_buffer,    \* parallel_radix_sort: buffer
    s_shift,     \* parallel_radix_sort: shift
    s_bucket,    \* parallel_radix_sort: bucket[]
    s_local,     \* parallel_radix_sort: each thread's local_bucket[]
    s_pc,        \* where the call stands: off, serial, parallel, done, crashed
    s_at,        \* where each thread of the team stands in the parallel region
    s_cur,       \* each thread's cur_t
    s_waiting,   \* the threads blocked in a barrier
    s_single,    \* whether the single construct of this region was taken
    s_inupdate,  \* the threads in the middle of the bucket[] update of line 89
    s_targets,   \* each thread's scatter writes of this pass: buffer indices
    s_barriers,  \* each thread's count of barriers passed in the offset loop
    s_order,     \* the threads that finished their offset update, in order
    t_box,       \* the bbox the last intersection test was called on
    t_prim,      \* the test called and its arguments
    t_ret,       \* what the test returned
    t_after,     \* the bbox after the call
    f_call,      \* the free function called last, with its arguments
    f_ret        \* what it returned

bvhVars == <<tree, num_leaves, reserved>>
callVars == <<pc, boxes, root_box, objs, ret, wiped>>
buildVars == <<nan_cast>>
histVars == <<ref>>
firstVars == <<q_live, next_node, intersects, q_ret, q_out, q_tested, q_missed,
               q_made, q_reset_mid>>
queryVars == <<q_live, next_node, intersects, q_ret, q_out, q_tested, q_missed,
               q_made, q_reset_mid, other>>
testVars == <<t_box, t_prim, t_ret, t_after>>
funVars == <<f_call, f_ret>>
sortVars == <<s_threads, s_in, s_objs, s_buffer, s_shift, s_bucket, s_local,
              s_pc, s_at, s_cur, s_waiting, s_single, s_inupdate, s_targets, s_barriers, s_order>>
vars == <<tree, num_leaves, reserved, pc, boxes, root_box, objs, ret, wiped,
          nan_cast, ref, queryVars, sortVars, testVars, funVars>>

NoRef == [boxes |-> BoxVector(<<>>), tree |-> <<>>]

\* A default-constructed bvh, before any generate().
NewBvh ==
    /\ tree = <<>>
    /\ num_leaves = 0
    /\ reserved = 0
    /\ pc = "idle"
    /\ boxes = BoxVector(<<>>)
    /\ root_box = EmptyBox
    /\ objs = <<>>
    /\ ret = "none"
    /\ wiped = FALSE
    /\ nan_cast \in NanCast
    /\ ref = NoRef

\* No query object exists.
NoFunctor == [kind |-> "none"]
NoOther == [live |-> FALSE, next_node |-> 0, intersects |-> NoFunctor,
            ret |-> "none", out |-> <<>>, made |-> NoFunctor, mixed |-> FALSE]
NoQuery ==
    /\ q_live = FALSE
    /\ next_node = 0
    /\ intersects = NoFunctor
    /\ q_ret = "none"
    /\ q_out = <<>>
    /\ q_tested = {}
    /\ q_missed = {}
    /\ q_made = NoFunctor
    /\ q_reset_mid = FALSE
    /\ other = NoOther

\* size_t bucket[base] = {0}
base == 256
Zeros == [i \in 0..(base - 1) |-> 0]

\* No call of parallel_radix_sort() is under way: no team, no arrays.
NoSort ==
    /\ s_threads = 0
    /\ s_in = <<>>
    /\ s_objs = <<>>
    /\ s_buffer = <<>>
    /\ s_shift = 0
    /\ s_bucket = <<>>
    /\ s_local = <<>>
    /\ s_pc = "off"
    /\ s_at = <<>>
    /\ s_cur = <<>>
    /\ s_waiting = {}
    /\ s_single = FALSE
    /\ s_inupdate = {}
    /\ s_targets = <<>>
    /\ s_barriers = <<>>
    /\ s_order = <<>>

\* No intersection test has been called.
NoTest ==
    /\ t_box = EmptyBox
    /\ t_prim = [kind |-> "none"]
    /\ t_ret = FALSE
    /\ t_after = EmptyBox

\* No free function has been called.
NoCall ==
    /\ f_call = [kind |-> "none"]
    /\ f_ret = 0

Init == NewBvh /\ NoQuery /\ NoSort /\ NoTest /\ NoCall

(***************************************************************************)
(* bvh::generate(), in four steps.                                         *)
(***************************************************************************)
\* A gate that would also turn away a vector of exactly max_size boxes.
TooManyAtLimit(n) == n >= max_size

\* if(boxes.size() > max_size)
TooMany(n) == n > max_size

\* A reservation of one node a box.
NodeReservePerBox(n) == n

\* tree.reserve(2 * boxes.size() - 1), summed so that 2^31 - 1 is reached
\* without passing it.
NodeReserve(n) == n + (n - 1)

\* A generate() that would return on an empty vector before clearing the BVH.
GenerateCallKeepsTree(bx) ==
    /\ pc = "idle"
    /\ boxes' = bx
    /\ root_box' = EmptyBox
    /\ objs' = <<>>
    /\ IF bx.n = 0
       THEN /\ ret' = "true" /\ pc' = "idle"
            /\ wiped' = FALSE
            /\ UNCHANGED <<tree, num_leaves, reserved>>
       ELSE /\ tree' = <<>>
            /\ num_leaves' = 0
            /\ wiped' = (Len(tree) > 0)
            /\ IF TooMany(bx.n)
               THEN ret' = "false" /\ pc' = "idle" /\ UNCHANGED reserved
               ELSE ret' = "none" /\ pc' = "keys" /\ reserved' = NodeReserve(bx.n)
    /\ UNCHANGED <<nan_cast, ref, queryVars, sortVars, testVars, funVars>>

\* Lines 216-227: clear(), the two early returns, the reservation.
GenerateCall(bx) ==
    /\ pc = "idle"
    /\ tree' = <<>>
    /\ num_leaves' = 0
    /\ wiped' = (Len(tree) > 0)
    /\ boxes' = bx
    /\ root_box' = EmptyBox
    /\ objs' = <<>>
    /\ IF TooMany(bx.n)
       THEN ret' = "false" /\ pc' = "idle" /\ UNCHANGED reserved
       ELSE IF bx.n = 0
       THEN ret' = "true" /\ pc' = "idle" /\ UNCHANGED reserved
       ELSE ret' = "none" /\ pc' = "keys" /\ reserved' = NodeReserve(bx.n)
    /\ UNCHANGED <<nan_cast, ref, queryVars, sortVars, testVars, funVars>>

\* Lines 230-237 and make_obj_list up to the sort: root_box, objs.resize(),
\* the Morton code and index of every box.  The model builds up to MaxN boxes.
MakeObjList ==
    /\ pc = "keys"
    /\ boxes.n <= MaxN
    /\ LET rb == root_of(EmptyBox, boxes.elems, 0)
       IN  /\ root_box' = rb
           /\ objs' = obj_codes(boxes.elems, rb, nan_cast)
    /\ pc' = "sort"
    /\ UNCHANGED <<tree, num_leaves, reserved, boxes, ret, wiped, nan_cast, ref,
                   queryVars, sortVars, testVars, funVars>>

\* parallel_radix_sort(objs).  The auxiliary vector "buffer" is constructed
\* empty (line 62) and never resized, so with nobjs >= 1 the first scatter
\* write buffer[...] = objs[i] (line 104) is out of bounds: undefined
\* behaviour.  The run either dies there, or goes on with the N entries of
\* objs indeterminate; the model draws each of them from the entries the
\* vector held.
Entries(v) == {v[i] : i \in 1..Len(v)}
Indeterminate(v) == [1..Len(v) -> Entries(v)]

RadixSortCrash ==
    /\ pc = "sort"
    /\ pc' = "crashed"
    /\ UNCHANGED <<tree, num_leaves, reserved, boxes, root_box, objs, ret, wiped,
                   nan_cast, ref, queryVars, sortVars, testVars, funVars>>

RadixSortGoesOn ==
    /\ pc = "sort"
    /\ objs' \in Indeterminate(objs)
    /\ pc' = "emit"
    /\ UNCHANGED <<tree, num_leaves, reserved, boxes, root_box, ret, wiped,
                   nan_cast, ref, queryVars, sortVars, testVars, funVars>>

\* Lines 240-242: the recursive emission over [0, N-1], and return true.
EmitTreeStep ==
    /\ pc = "emit"
    /\ tree' = generate(tree, boxes.elems, objs, root_box, 0, boxes.n - 1)
    /\ ret' = "true"
    /\ pc' = "idle"
    /\ UNCHANGED <<num_leaves, reserved, boxes, root_box, objs, wiped, nan_cast,
                   queryVars, sortVars, testVars, funVars>>

EmitTree == EmitTreeStep /\ UNCHANGED ref

Next ==
    \/ \E bx \in Inputs(MaxN) : GenerateCall(bx)
    \/ MakeObjList
    \/ RadixSortCrash
    \/ RadixSortGoesOn
    \/ EmitTree

Spec == Init /\ [][Next]_vars

(***************************************************************************)
(* The same builder, remembering the first tree it built so that a later   *)
(* build over the same boxes can be compared with it.                      *)
(***************************************************************************)
EmitTreeRecorded ==
    /\ EmitTreeStep
    /\ ref' = IF ref = NoRef THEN [boxes |-> boxes, tree |-> tree'] ELSE ref

RebuildNext ==
    \/ \E bx \in Inputs(MaxRebuildN) : GenerateCall(bx)
    \/ MakeObjList
    \/ RadixSortCrash
    \/ RadixSortGoesOn
    \/ EmitTreeRecorded

SpecRebuild == Init /\ [][RebuildNext]_vars

(***************************************************************************)
(* Properties of a finished build.                                         *)
(***************************************************************************)
\* generate() has returned true on at least k boxes.
Built(k) == pc = "idle" /\ ret = "true" /\ boxes.n >= k

\* The number of nodes of the subtree rooted at index k, read off the
\* pre-order layout: a leaf is one node, an internal node is followed by its
\* left subtree and then by its right subtree.
RECURSIVE NodesBelow(_, _)
NodesBelow(t, k) ==
    IF is_leaf(At(t, k)) THEN 1
    ELSE LET l == NodesBelow(t, k + 1)
         IN  1 + l + NodesBelow(t, k + 1 + l)

InternalNodes(t) == {k \in 0..(Len(t) - 1) : ~is_leaf(At(t, k))}
LeafNodes(t) == {k \in 0..(Len(t) - 1) : is_leaf(At(t, k))}

\* C1: after a successful generate() over N >= 2 boxes every internal node at
\* index k stores in num the number s of nodes of the subtree rooted at it:
\* s >= 3, k + s <= len(tree), and s counts exactly the node and its
\* descendants.
C1_NumIsSubtreeNodeCount ==
    Built(2) =>
        \A k \in InternalNodes(tree) :
            LET s == At(tree, k).num.low
            IN  s >= 3 /\ k + s <= Len(tree) /\ s = NodesBelow(tree, k)

\* C5: after a successful generate() over N >= 1 boxes the node array holds
\* exactly 2N - 1 nodes, which is the reservation made before the emission.
C5_NodeCountIsReservation ==
    Built(1) => Len(tree) = 2 * boxes.n - 1 /\ Len(tree) = reserved

C5_Witness == Built(3) /\ Len(tree) = 5 /\ reserved = 5

\* C6: after a successful generate() over N >= 1 boxes size() returns N, so
\* len(tree) = 2 * size() - 1.
C6_SizeIsLeafCount ==
    Built(1) => num_leaves = boxes.n /\ Len(tree) = 2 * num_leaves - 1

\* C7: after a successful generate() over N >= 1 boxes every index 0..N-1 is
\* the low 31 bits of exactly one leaf.
C7_LeavesArePermutation ==
    Built(1) =>
        /\ Cardinality(LeafNodes(tree)) = boxes.n
        /\ \A i \in 0..(boxes.n - 1) :
             Cardinality({k \in LeafNodes(tree) : At(tree, k).num.low = i}) = 1

\* C9: generate() returns false exactly when boxes.size() > max_size, and
\* whenever it has returned false the BVH is empty, whatever it held before.
C9_FalseIffTooMany ==
    /\ (pc = "idle" /\ ret # "none") => ((ret = "false") <=> (boxes.n > max_size))
    /\ (pc # "idle") => boxes.n <= max_size
    /\ (ret = "false") => (tree = <<>> /\ num_leaves = 0)

C9_Witness == pc = "idle" /\ ret = "false" /\ wiped /\ tree = <<>>

\* C10: the node array depends only on the input vector: a build over the
\* boxes of an earlier build produces the node array that build produced,
\* whatever the BVH held in between.
C10_SameInputSameTree ==
    (Built(1) /\ ref # NoRef /\ ref.boxes = boxes) => tree = ref.tree

(***************************************************************************)
(* bvh::query: the intersection functors and the iterator.                 *)
(***************************************************************************)
\* bvh::intersect_point(pt)
intersect_point(pt) == [kind |-> "point", point |-> pt]

\* bvh::intersect_segment(seg_a, seg_b)
intersect_segment(seg_a, seg_b) ==
    LET d == VHalf(VSub(seg_b, seg_a))
    IN  [kind |-> "segment", d |-> d, seg_a_d |-> VAdd(seg_a, d), ad |-> VAbs(d)]

\* A functor of the caller's own: true on the boxes of a set, false elsewhere.
intersect_only(bs) == [kind |-> "only", accept |-> bs]

\* intersects(nd.box): the functor's operator()
call(f, box) ==
    CASE f.kind = "point" -> intersects_point(box, f.point)
      [] f.kind = "segment" -> intersects_segment_precalc(box, f.d, f.seg_a_d, f.ad)
      [] f.kind = "only" -> box \in f.accept

\* The end points a segment functor was made from.
SegA(f) == VSub(f.seg_a_d, f.d)
SegB(f) == VAdd(f.seg_a_d, f.d)

\* query::next(), from the cursor "node" on.  "tested" and "missed" collect the
\* node indices the functor is called on and those it rejects.
RECURSIVE next(_, _, _, _, _)
next(t, f, node, tested, missed) ==
    IF node < Len(t)
    THEN LET nd == At(t, node)
         IN  IF call(f, nd.box)
             THEN IF is_leaf(nd)
                  THEN [ret |-> "true", next_node |-> node + 1,
                        out_match |-> <<nd.num.low>>,
                        tested |-> tested \cup {node}, missed |-> missed]
                  ELSE next(t, f, node + 1, tested \cup {node}, missed)
             ELSE next(t, f, node + subtree_size(nd),
                       tested \cup {node}, missed \cup {node})
    ELSE [ret |-> "false", next_node |-> node, out_match |-> <<>>,
          tested |-> tested, missed |-> missed]

\* The query points: inside BoxA only, on the corner BoxA and BoxB share,
\* inside BoxB only, outside both.
Points == {Vec(1, 1, 1), Vec(2, 2, 2), Vec(3, 3, 3), Vec(5, 5, 5)}

\* The query segments: along the x axis through the origin, along the
\* diagonal of both boxes, away from both boxes.
Segments == {<<Vec(-2, 0, 0), Vec(2, 0, 0)>>,
             <<Vec(1, 1, 1), Vec(3, 3, 3)>>,
             <<Vec(5, 5, 5), Vec(6, 5, 5)>>}

Functors ==
    {intersect_point(p) : p \in Points}
        \cup {intersect_segment(s[1], s[2]) : s \in Segments}
        \cup {intersect_only({BoxB})}

\* query(targ, ifunc), on a bvh no generate() is running on.
MakeQuery(f) ==
    /\ pc = "idle"
    /\ ~q_live
    /\ q_live' = TRUE
    /\ next_node' = 0
    /\ intersects' = f
    /\ q_ret' = "none"
    /\ q_out' = <<>>
    /\ q_tested' = {}
    /\ q_missed' = {}
    /\ q_made' = f
    /\ q_reset_mid' = FALSE
    /\ UNCHANGED other
    /\ UNCHANGED <<bvhVars, callVars, buildVars, histVars, sortVars, testVars, funVars>>

\* One call of next(&out).
QueryNext ==
    /\ q_live
    /\ LET r == next(tree, intersects, next_node, q_tested, q_missed)
       IN  /\ next_node' = r.next_node
           /\ q_ret' = r.ret
           /\ q_out' = q_out \o r.out_match
           /\ q_tested' = r.tested
           /\ q_missed' = r.missed
    /\ UNCHANGED <<q_live, intersects, q_made, q_reset_mid, other>>
    /\ UNCHANGED <<bvhVars, callVars, buildVars, histVars, sortVars, testVars, funVars>>

\* A reset() that would leave the cursor where it stands.
QueryResetKeepsCursor ==
    /\ q_live
    /\ q_reset_mid' = (0 < next_node /\ next_node < Len(tree))
    /\ q_ret' = "none"
    /\ q_out' = <<>>
    /\ q_tested' = {}
    /\ q_missed' = {}
    /\ UNCHANGED <<q_live, next_node, intersects, q_made, other>>
    /\ UNCHANGED <<bvhVars, callVars, buildVars, histVars, sortVars, testVars, funVars>>

\* reset()
QueryReset ==
    /\ q_live
    /\ next_node' = 0
    /\ q_reset_mid' = (0 < next_node /\ next_node < Len(tree))
    /\ q_ret' = "none"
    /\ q_out' = <<>>
    /\ q_tested' = {}
    /\ q_missed' = {}
    /\ UNCHANGED <<q_live, intersects, q_made, other>>
    /\ UNCHANGED <<bvhVars, callVars, buildVars, histVars, sortVars, testVars, funVars>>

\* reset(ifunc)
QueryResetWith(f) ==
    /\ q_live
    /\ next_node' = 0
    /\ intersects' = f
    /\ q_ret' = "none"
    /\ q_out' = <<>>
    /\ q_tested' = {}
    /\ q_missed' = {}
    /\ q_made' = f
    /\ q_reset_mid' = FALSE
    /\ UNCHANGED <<q_live, other>>
    /\ UNCHANGED <<bvhVars, callVars, buildVars, histVars, sortVars, testVars, funVars>>

\* The bvh is built while no query refers to it, and queried afterwards.
QueryBuild(bx) == ~q_live /\ GenerateCall(bx)

QueryStep ==
    \/ \E bx \in Inputs(MaxQueryN) : QueryBuild(bx)
    \/ MakeObjList
    \/ RadixSortCrash
    \/ RadixSortGoesOn
    \/ EmitTree
    \/ \E f \in Functors : MakeQuery(f)
    \/ QueryNext
    \/ QueryReset
    \/ \E f \in Functors : QueryResetWith(f)

SpecQuery == Init /\ [][QueryStep]_vars

(***************************************************************************)
(* Properties of a query.                                                  *)
(***************************************************************************)
\* The nodes strictly inside the subtree rooted at node k.
Descendants(t, k) == (k + 1)..(k + NodesBelow(t, k) - 1)

\* A query over a finished build of at least k boxes.
Querying(k) == Built(k) /\ q_live

\* A query that has just returned false: it has been drained.
Drained(k) == Querying(k) /\ q_ret = "false"

\* C2: whatever the predicate, a node it rejects is skipped with its whole
\* subtree: the cursor stands past the subtree, the predicate is evaluated on
\* no descendant of a rejected node, and a leaf is yielded only when the
\* predicate accepted it and every ancestor of it.
C2_MissSkipsSubtree ==
    Querying(1) =>
        /\ \A k \in q_missed :
             /\ next_node >= k + NodesBelow(tree, k)
             /\ Descendants(tree, k) \cap q_tested = {}
        /\ \A k \in (q_tested \ q_missed) \cap LeafNodes(tree) :
             \A a \in InternalNodes(tree) :
                 k \in Descendants(tree, a) => a \in q_tested \ q_missed

\* C3: draining a point query yields exactly the indices of the input boxes
\* that contain the point.
C3_PointQueryExact ==
    (Drained(1) /\ intersects.kind = "point") =>
        Entries(q_out) =
            {i \in 0..(boxes.n - 1) : intersects_point(At(boxes.elems, i), intersects.point)}

\* C4: draining a segment query yields exactly the indices of the input
\* boxes the segment intersects; an empty box is never among them.
C4_SegmentQueryExact ==
    (Drained(1) /\ intersects.kind = "segment") =>
        Entries(q_out) =
            {i \in 0..(boxes.n - 1) :
                intersects_segment(At(boxes.elems, i), SegA(intersects), SegB(intersects))}

(***************************************************************************)
(* parallel_radix_sort(), thread by thread.                                *)
(*                                                                         *)
(* A thread that reaches a barrier joins s_waiting and stays there until   *)
(* the whole team has joined; s_at[t] is the statement it runs next.       *)
(***************************************************************************)
base_bits == 8
total_digits == 32

\* (v >> shift) & mask
digits(v, shift, mask) == BitAnd(v \div Pow2(shift), mask)

\* std::vector<obj> buffer;
buffer_init(v) == <<>>

Team == 0..(s_threads - 1)
nobjs == Len(s_in)

\* schedule(static) without a chunk size: the iterations 0..n-1 are cut into
\* one contiguous chunk a thread, in thread order, sizes differing by at most
\* one.  ChunkFirst(t, n, nt) .. ChunkFirst(t + 1, n, nt) - 1 is thread t's chunk.
ChunkFirst(t, n, nt) ==
    LET q == n \div nt
        r == n % nt
    IN  IF t < r THEN t * (q + 1) ELSE r * (q + 1) + (t - r) * q

\* for(i...) local_bucket[digits(objs[i].code, shift, mask)]++, over i..hi-1
RECURSIVE count_loop(_, _, _, _, _)
count_loop(loc, v, shift, i, hi) ==
    IF i >= hi THEN loc
    ELSE LET dg == digits(At(v, i).code, shift, base - 1)
         IN  count_loop([loc EXCEPT ![dg] = @ + 1], v, shift, i + 1, hi)

\* b[lo] + ... + b[hi], summed by halves.
RECURSIVE RangeSum(_, _, _)
RangeSum(b, lo, hi) ==
    IF lo = hi THEN b[lo]
    ELSE LET mid == (lo + hi) \div 2
         IN  RangeSum(b, lo, mid) + RangeSum(b, mid + 1, hi)

\* A prefix sum that would leave the counts as they are.
prefix_sum_skipped(b) == b

\* for(i = 1; i < base; i++) bucket[i] += bucket[i - 1]
prefix_sum(b) == [i \in 0..(base - 1) |-> RangeSum(b, 0, i)]

\* for(i...) buffer[local_bucket[digits(...)]++] = objs[i], over i..hi-1.
\* "hit" collects the buffer indices written, in order.
RECURSIVE scatter_loop(_, _, _, _, _, _, _)
scatter_loop(buf, loc, hit, v, shift, i, hi) ==
    IF i >= hi THEN [buffer |-> buf, local_bucket |-> loc, targets |-> hit]
    ELSE LET dg == digits(At(v, i).code, shift, base - 1)
             to == loc[dg]
         IN  scatter_loop([buf EXCEPT ![to + 1] = At(v, i)],
                          [loc EXCEPT ![dg] = @ + 1],
                          Append(hit, to), v, shift, i + 1, hi)

\* The buffer indices thread t's scatter loop writes, from local_bucket "loc".
RECURSIVE scatter_targets(_, _, _, _, _, _)
scatter_targets(loc, hit, codes, shift, i, hi) ==
    IF i >= hi THEN hit
    ELSE LET dg == digits(codes[i + 1], shift, base - 1)
         IN  scatter_targets([loc EXCEPT ![dg] = @ + 1], Append(hit, loc[dg]),
                             codes, shift, i + 1, hi)

\* The vectors the model sorts: entry i carries the index i, as make_obj_list
\* leaves it, and a key whose lowest and second digits both vary.
SortKeys == {0, 1, 256}
SortInputs ==
    {[i \in 1..Len(ks) |-> Obj(ks[i], i - 1)] : ks \in SeqsUpTo(SortKeys, MaxSortN)}

\* Lines 57-67: the call, on a vector v, with nt threads in every team.  The
\* function keeps nothing between calls, so a behaviour makes one call.
SortCall(v, nt) ==
    /\ s_pc = "off"
    /\ s_threads' = nt
    /\ s_in' = v
    /\ s_objs' = v
    /\ s_buffer' = buffer_init(v)
    /\ s_shift' = 0
    /\ s_pc' = "serial"
    /\ s_bucket' = Zeros
    /\ s_local' = [t \in 0..(nt - 1) |-> Zeros]
    /\ s_at' = [t \in 0..(nt - 1) |-> "out"]
    /\ s_cur' = [t \in 0..(nt - 1) |-> 0]
    /\ s_waiting' = {}
    /\ s_single' = FALSE
    /\ s_inupdate' = {}
    /\ s_targets' = [t \in 0..(nt - 1) |-> <<>>]
    /\ s_barriers' = [t \in 0..(nt - 1) |-> 0]
    /\ s_order' = <<>>
    /\ UNCHANGED <<bvhVars, callVars, buildVars, histVars, queryVars, testVars, funVars>>

\* Lines 69-74: one more turn of the loop over shift; the team starts, each
\* thread with its own zeroed copy of local_bucket (firstprivate).
BeginPass ==
    /\ s_pc = "serial"
    /\ s_shift < total_digits
    /\ s_pc' = "parallel"
    /\ s_bucket' = Zeros
    /\ s_local' = [t \in Team |-> Zeros]
    /\ s_at' = [t \in Team |-> "count"]
    /\ s_single' = FALSE
    /\ s_targets' = [t \in Team |-> <<>>]
    /\ s_barriers' = [t \in Team |-> 0]
    /\ s_order' = <<>>
    /\ UNCHANGED <<s_threads, s_in, s_objs, s_buffer, s_shift, s_cur, s_waiting,
                   s_inupdate>>
    /\ UNCHANGED <<bvhVars, callVars, buildVars, histVars, queryVars, testVars, funVars>>

Running(t, at) == s_pc = "parallel" /\ s_at[t] = at /\ t \notin s_waiting

\* Lines 76-79: the counting loop over the thread's chunk (nowait).
Count(t) ==
    /\ Running(t, "count")
    /\ ChunkFirst(t + 1, nobjs, s_threads) <= Len(s_objs)
    /\ s_local' = [s_local EXCEPT ![t] =
           count_loop(@, s_objs, s_shift, ChunkFirst(t, nobjs, s_threads),
                      ChunkFirst(t + 1, nobjs, s_threads))]
    /\ s_at' = [s_at EXCEPT ![t] = "critical"]
    /\ UNCHANGED <<s_threads, s_in, s_objs, s_buffer, s_shift, s_bucket, s_pc,
                   s_cur, s_waiting, s_single, s_inupdate, s_targets, s_barriers, s_order>>
    /\ UNCHANGED <<bvhVars, callVars, buildVars, histVars, queryVars, testVars, funVars>>

\* A critical section that no barrier would follow.
CriticalNoBarrier(t) ==
    /\ Running(t, "critical")
    /\ s_bucket' = [i \in 0..(base - 1) |-> s_bucket[i] + s_local[t][i]]
    /\ s_at' = [s_at EXCEPT ![t] = "single"]
    /\ UNCHANGED <<s_threads, s_in, s_objs, s_buffer, s_shift, s_local, s_pc,
                   s_cur, s_waiting, s_single, s_inupdate, s_targets, s_barriers,
                   s_order>>
    /\ UNCHANGED <<bvhVars, callVars, buildVars, histVars, queryVars, testVars, funVars>>

\* Lines 80-84: the critical section, then the barrier.
Critical(t) ==
    /\ Running(t, "critical")
    /\ s_bucket' = [i \in 0..(base - 1) |-> s_bucket[i] + s_local[t][i]]
    /\ s_at' = [s_at EXCEPT ![t] = "single"]
    /\ s_waiting' = s_waiting \cup {t}
    /\ UNCHANGED <<s_threads, s_in, s_objs, s_buffer, s_shift, s_local, s_pc,
                   s_cur, s_single, s_inupdate, s_targets, s_barriers, s_order>>
    /\ UNCHANGED <<bvhVars, callVars, buildVars, histVars, queryVars, testVars, funVars>>

\* A barrier opens once the whole team waits in it.
BarrierOpens ==
    /\ s_pc = "parallel"
    /\ s_waiting = Team
    /\ s_waiting' = {}
    /\ UNCHANGED <<s_threads, s_in, s_objs, s_buffer, s_shift, s_bucket, s_local,
                   s_pc, s_at, s_cur, s_single, s_inupdate, s_targets, s_barriers, s_order>>
    /\ UNCHANGED <<bvhVars, callVars, buildVars, histVars, queryVars, testVars, funVars>>

\* Lines 85-88: the single construct, run by the first thread to reach it and
\* skipped by the others, and its closing barrier; lines 89-91: nthreads, tid,
\* cur_t = nthreads - 1.
Single(t) ==
    /\ Running(t, "single")
    /\ s_bucket' = IF s_single THEN s_bucket ELSE prefix_sum(s_bucket)
    /\ s_single' = TRUE
    /\ s_at' = [s_at EXCEPT ![t] = "turn"]
    /\ s_cur' = [s_cur EXCEPT ![t] = s_threads - 1]
    /\ s_waiting' = s_waiting \cup {t}
    /\ UNCHANGED <<s_threads, s_in, s_objs, s_buffer, s_shift, s_local, s_pc,
                   s_inupdate, s_targets, s_barriers, s_order>>
    /\ UNCHANGED <<bvhVars, callVars, buildVars, histVars, queryVars, testVars, funVars>>

\* cur_t--, and the loop test cur_t >= 0.
AfterTurn(t) == IF s_cur[t] - 1 >= 0 THEN "turn" ELSE "scatter"

\* Lines 97-99: a turn that is not the thread's own: the barrier.
TurnBarrier(t) ==
    /\ Running(t, "turn")
    /\ s_cur[t] # t
    /\ s_waiting' = s_waiting \cup {t}
    /\ s_barriers' = [s_barriers EXCEPT ![t] = @ + 1]
    /\ s_cur' = [s_cur EXCEPT ![t] = @ - 1]
    /\ s_at' = [s_at EXCEPT ![t] = AfterTurn(t)]
    /\ UNCHANGED <<s_threads, s_in, s_objs, s_buffer, s_shift, s_bucket, s_local,
                   s_pc, s_single, s_inupdate, s_targets, s_order>>
    /\ UNCHANGED <<bvhVars, callVars, buildVars, histVars, queryVars, testVars, funVars>>

\* A thread that would update bucket in whichever turn it stands.
TurnBeginAnyTurn(t) ==
    /\ Running(t, "turn")
    /\ s_at' = [s_at EXCEPT ![t] = "update"]
    /\ s_inupdate' = s_inupdate \cup {t}
    /\ UNCHANGED <<s_threads, s_in, s_objs, s_buffer, s_shift, s_bucket, s_local,
                   s_pc, s_cur, s_waiting, s_single, s_targets, s_barriers, s_order>>
    /\ UNCHANGED <<bvhVars, callVars, buildVars, histVars, queryVars, testVars, funVars>>

\* Line 92: the thread's own turn begins.
TurnBegin(t) ==
    /\ Running(t, "turn")
    /\ s_cur[t] = t
    /\ s_at' = [s_at EXCEPT ![t] = "update"]
    /\ s_inupdate' = s_inupdate \cup {t}
    /\ UNCHANGED <<s_threads, s_in, s_objs, s_buffer, s_shift, s_bucket, s_local,
                   s_pc, s_cur, s_waiting, s_single, s_targets, s_barriers, s_order>>
    /\ UNCHANGED <<bvhVars, callVars, buildVars, histVars, queryVars, testVars, funVars>>

\* An update that would take the thread's offsets and leave bucket as it was.
TurnUpdateKeepsBucket(t) ==
    /\ Running(t, "update")
    /\ s_local' = [s_local EXCEPT ![t] =
           [i \in 0..(base - 1) |-> s_bucket[i] - s_local[t][i]]]
    /\ s_order' = Append(s_order, t)
    /\ s_inupdate' = s_inupdate \ {t}
    /\ s_cur' = [s_cur EXCEPT ![t] = @ - 1]
    /\ s_at' = [s_at EXCEPT ![t] = AfterTurn(t)]
    /\ UNCHANGED <<s_threads, s_in, s_objs, s_buffer, s_shift, s_bucket, s_pc,
                   s_waiting, s_single, s_targets, s_barriers>>
    /\ UNCHANGED <<bvhVars, callVars, buildVars, histVars, queryVars, testVars, funVars>>

\* Lines 93-96: bucket[i] -= local_bucket[i]; local_bucket[i] = bucket[i].
TurnUpdate(t) ==
    /\ Running(t, "update")
    /\ LET b == [i \in 0..(base - 1) |-> s_bucket[i] - s_local[t][i]]
       IN  /\ s_bucket' = b
           /\ s_local' = [s_local EXCEPT ![t] = b]
    /\ s_order' = Append(s_order, t)
    /\ s_inupdate' = s_inupdate \ {t}
    /\ s_cur' = [s_cur EXCEPT ![t] = @ - 1]
    /\ s_at' = [s_at EXCEPT ![t] = AfterTurn(t)]
    /\ UNCHANGED <<s_threads, s_in, s_objs, s_buffer, s_shift, s_pc, s_waiting,
                   s_single, s_targets, s_barriers>>
    /\ UNCHANGED <<bvhVars, callVars, buildVars, histVars, queryVars, testVars, funVars>>

\* What thread t's scatter loop reads and where it writes.
ScatterFirst(t) == ChunkFirst(t, nobjs, s_threads)
ScatterEnd(t) == ChunkFirst(t + 1, nobjs, s_threads)
ScatterInBounds(t) ==
    /\ ScatterEnd(t) <= Len(s_objs)
    /\ \A k \in Entries(scatter_targets(s_local[t], <<>>,
                            [i \in 1..Len(s_objs) |-> s_objs[i].code], s_shift,
                            ScatterFirst(t), ScatterEnd(t))) :
           k < Len(s_buffer)

\* Lines 102-106: the scatter loop over the thread's chunk, every access
\* inside its vector, and the barrier that ends the loop and the region.
Scatter(t) ==
    /\ Running(t, "scatter")
    /\ ScatterInBounds(t)
    /\ LET r == scatter_loop(s_buffer, s_local[t], <<>>, s_objs, s_shift,
                             ScatterFirst(t), ScatterEnd(t))
       IN  /\ s_buffer' = r.buffer
           /\ s_local' = [s_local EXCEPT ![t] = r.local_bucket]
           /\ s_targets' = [s_targets EXCEPT ![t] = r.targets]
    /\ UNCHANGED <<s_barriers, s_order>>
    /\ s_at' = [s_at EXCEPT ![t] = "end"]
    /\ UNCHANGED <<s_threads, s_in, s_objs, s_shift, s_bucket, s_pc, s_cur,
                   s_waiting, s_single, s_inupdate>>
    /\ UNCHANGED <<bvhVars, callVars, buildVars, histVars, queryVars, testVars, funVars>>

\* Line 104 with an index outside the vector: undefined behaviour.  The
\* process dies ...
ScatterCrash(t) ==
    /\ Running(t, "scatter")
    /\ ~ScatterInBounds(t)
    /\ s_pc' = "crashed"
    /\ UNCHANGED <<s_threads, s_in, s_objs, s_buffer, s_shift, s_bucket, s_local,
                   s_at, s_cur, s_waiting, s_single, s_inupdate, s_targets, s_barriers, s_order>>
    /\ UNCHANGED <<bvhVars, callVars, buildVars, histVars, queryVars, testVars, funVars>>

\* ... or the call runs to its end and leaves objs with its nobjs entries
\* indeterminate; the team and the locals of the function are gone.
ScatterGoesOn(t) ==
    /\ Running(t, "scatter")
    /\ ~ScatterInBounds(t)
    /\ s_objs' \in Indeterminate(s_in)
    /\ s_pc' = "done"
    /\ s_buffer' = <<>>
    /\ s_bucket' = Zeros
    /\ s_local' = [u \in Team |-> Zeros]
    /\ s_at' = [u \in Team |-> "out"]
    /\ s_cur' = [u \in Team |-> 0]
    /\ s_waiting' = {}
    /\ s_single' = FALSE
    /\ s_inupdate' = {}
    /\ s_targets' = [u \in Team |-> <<>>]
    /\ s_barriers' = [u \in Team |-> 0]
    /\ s_order' = <<>>
    /\ UNCHANGED <<s_threads, s_in, s_shift>>
    /\ UNCHANGED <<bvhVars, callVars, buildVars, histVars, queryVars, testVars, funVars>>

\* Lines 107-110: the region ends when every thread has left the scatter
\* loop; std::swap(objs, buffer); shift += base_bits.
EndPass ==
    /\ s_pc = "parallel"
    /\ \A t \in Team : s_at[t] = "end"
    /\ s_objs' = s_buffer
    /\ s_buffer' = s_objs
    /\ s_shift' = s_shift + base_bits
    /\ s_pc' = "serial"
    /\ s_at' = [t \in Team |-> "out"]
    /\ UNCHANGED <<s_threads, s_in, s_bucket, s_local, s_cur, s_waiting, s_single,
                   s_inupdate, s_targets, s_barriers, s_order>>
    /\ UNCHANGED <<bvhVars, callVars, buildVars, histVars, queryVars, testVars, funVars>>

\* Line 111: the loop over shift is over, the function returns.
SortReturn ==
    /\ s_pc = "serial"
    /\ s_shift >= total_digits
    /\ s_pc' = "done"
    /\ UNCHANGED <<s_threads, s_in, s_objs, s_buffer, s_shift, s_bucket, s_local,
                   s_at, s_cur, s_waiting, s_single, s_inupdate, s_targets, s_barriers, s_order>>
    /\ UNCHANGED <<bvhVars, callVars, buildVars, histVars, queryVars, testVars, funVars>>

SortStep ==
    \/ \E v \in SortInputs, nt \in 1..MaxThreads : SortCall(v, nt)
    \/ BeginPass
    \/ \E t \in Team : Count(t)
    \/ \E t \in Team : Critical(t)
    \/ BarrierOpens
    \/ \E t \in Team : Single(t)
    \/ \E t \in Team : TurnBarrier(t)
    \/ \E t \in Team : TurnBegin(t)
    \/ \E t \in Team : TurnUpdate(t)
    \/ \E t \in Team : Scatter(t)
    \/ \E t \in Team : ScatterCrash(t)
    \/ \E t \in Team : ScatterGoesOn(t)
    \/ EndPass
    \/ SortReturn

SpecSort == Init /\ [][SortStep]_vars

(***************************************************************************)
(* Properties of the sort.                                                 *)
(***************************************************************************)
\* out holds the entries of in, keys ascending, equal keys in input order.
IsStableSortOf(out, in) ==
    /\ Len(out) = Len(in)
    /\ \E p \in Permutations(1..Len(in)) :
         /\ \A i \in 1..Len(in) : out[i] = in[p[i]]
         /\ \A i, j \in 1..Len(in) :
              i < j => \/ out[i].code < out[j].code
                       \/ out[i].code = out[j].code /\ p[i] < p[j]

\* C8: whatever the number of threads, a call of parallel_radix_sort() that
\* returns leaves objs as the stable ascending sort of what it was given.
C8_StableAscendingSort ==
    s_pc = "done" => IsStableSortOf(s_objs, s_in)

\* What a query over tree t with functor f yields from cursor "node" on, call
\* after call of next(), until next() returns false.
RECURSIVE drain(_, _, _, _)
drain(t, f, node, out) ==
    LET r == next(t, f, node, {}, {})
    IN  IF r.ret = "true" THEN drain(t, f, r.next_node, out \o r.out_match)
        ELSE out

IsPrefix(a, b) == Len(a) <= Len(b) /\ \A i \in 1..Len(a) : a[i] = b[i]

\* C11: reset() keeps the predicate, and the calls of next() after a reset(),
\* wherever in a drain it came, yield index after index what a freshly
\* constructed query with that predicate yields; once next() has returned
\* false the whole sequence has been yielded.
C11_ResetRestartsDrain ==
    q_live =>
        /\ intersects = q_made
        /\ IsPrefix(q_out, drain(tree, q_made, 0, <<>>))
        /\ q_ret = "false" => q_out = drain(tree, q_made, 0, <<>>)

\* A drain of two indices or more that followed a reset() in mid-drain.
C11_Witness ==
    /\ Drained(2)
    /\ q_reset_mid
    /\ Len(q_out) >= 2

\* The entries of v in stable ascending order of their codes.
SortedEntries(v) == CHOOSE o \in [1..Len(v) -> Entries(v)] : IsStableSortOf(o, v)

\* The idx fields of a vector of entries, in order.
IdxSeq(v) == [i \in 1..Len(v) |-> v[i].idx]

\* The indices the leaves of t store, from left to right.
LeafIdxSeq(t) ==
    LET ls == SelectSeq(t, is_leaf)
    IN  [i \in 1..Len(ls) |-> ls[i].num.low]

\* a is b with some of its elements left out.
RECURSIVE IsSubseq(_, _)
IsSubseq(a, b) ==
    IF a = <<>> THEN TRUE
    ELSE IF b = <<>> THEN FALSE
    ELSE IF Head(a) = Head(b) THEN IsSubseq(Tail(a), Tail(b))
    ELSE IsSubseq(a, Tail(b))

\* The positions of the leaves the running drain has yielded, ascending.
YieldedLeaves ==
    SelectSeq([i \in 1..Len(tree) |-> i - 1],
              LAMBDA k : k \in q_tested \ q_missed /\ is_leaf(At(tree, k)))

\* C12: a drain yields its indices in increasing tree position of their
\* leaves; the leaves stand from left to right in the order of the sorted
\* entry vector; so the indices yielded are a subsequence of the idx sequence
\* of the entries sorted by Morton code.
C12_YieldsInMortonOrder ==
    Querying(1) =>
        /\ q_out = [i \in 1..Len(YieldedLeaves) |-> At(tree, YieldedLeaves[i]).num.low]
        /\ LeafIdxSeq(tree) = IdxSeq(objs)
        /\ IsSubseq(q_out,
                    IdxSeq(SortedEntries(obj_codes(boxes.elems, root_box, nan_cast))))

(***************************************************************************)
(* Two bvh::query objects over one bvh, their calls interleaved.           *)
(***************************************************************************)
PairFunctors == {intersect_point(Vec(2, 2, 2)), intersect_only({BoxB})}

\* The first query is in the middle of a drain.
MidDrain == q_live /\ q_ret = "true"

\* query(targ, ifunc) for the second object.
MakeOther(f) ==
    /\ pc = "idle"
    /\ ~other.live
    /\ other' = [live |-> TRUE, next_node |-> 0, intersects |-> f,
                 ret |-> "none", out |-> <<>>, made |-> f, mixed |-> FALSE]
    /\ UNCHANGED firstVars
    /\ UNCHANGED <<bvhVars, callVars, buildVars, histVars, sortVars, testVars, funVars>>

\* A next() of the second object that would read and move a cursor the two
\* objects share.
OtherNextSharedCursor ==
    /\ other.live
    /\ q_live
    /\ LET r == next(tree, other.intersects, next_node, {}, {})
       IN  /\ next_node' = r.next_node
           /\ other' = [other EXCEPT !.ret = r.ret,
                                     !.out = @ \o r.out_match,
                                     !.mixed = @ \/ MidDrain]
    /\ UNCHANGED <<q_live, intersects, q_ret, q_out, q_tested, q_missed, q_made,
                   q_reset_mid>>
    /\ UNCHANGED <<bvhVars, callVars, buildVars, histVars, sortVars, testVars, funVars>>

\* next(&out) on the second object.
OtherNext ==
    /\ other.live
    /\ LET r == next(tree, other.intersects, other.next_node, {}, {})
       IN  other' = [other EXCEPT !.next_node = r.next_node,
                                  !.ret = r.ret,
                                  !.out = @ \o r.out_match,
                                  !.mixed = @ \/ MidDrain]
    /\ UNCHANGED firstVars
    /\ UNCHANGED <<bvhVars, callVars, buildVars, histVars, sortVars, testVars, funVars>>

\* reset() on the second object.
OtherReset ==
    /\ other.live
    /\ other' = [other EXCEPT !.next_node = 0, !.ret = "none", !.out = <<>>,
                              !.mixed = @ \/ MidDrain]
    /\ UNCHANGED firstVars
    /\ UNCHANGED <<bvhVars, callVars, buildVars, histVars, sortVars, testVars, funVars>>

\* The bvh is built once, before any query refers to it.
PairBuild(bx) == ret = "none" /\ ~q_live /\ ~other.live /\ GenerateCall(bx)

PairStep ==
    \/ \E bx \in Inputs(MaxPairN) : PairBuild(bx)
    \/ MakeObjList
    \/ RadixSortCrash
    \/ RadixSortGoesOn
    \/ EmitTree
    \/ \E f \in PairFunctors : MakeQuery(f)
    \/ QueryNext
    \/ QueryReset
    \/ \E f \in PairFunctors : MakeOther(f)
    \/ OtherNext
    \/ OtherReset

SpecPair == Init /\ [][PairStep]_vars

\* C13: however the calls on two queries over one bvh are interleaved, each
\* query yields, since its construction or its last reset(), a prefix of
\* what a query run alone yields, and the whole of it once next() has
\* returned false.
C13_IteratorsIndependent ==
    /\ q_live =>
         /\ IsPrefix(q_out, drain(tree, q_made, 0, <<>>))
         /\ q_ret = "false" => q_out = drain(tree, q_made, 0, <<>>)
    /\ other.live =>
         /\ IsPrefix(other.out, drain(tree, other.made, 0, <<>>))
         /\ other.ret = "false" => other.out = drain(tree, other.made, 0, <<>>)

\* Both queries drained, with different predicates, the second one called
\* while the first was in mid-drain.
C13_Witness ==
    /\ Drained(2)
    /\ other.live /\ other.ret = "false" /\ other.mixed
    /\ other.intersects # intersects
    /\ Len(q_out) >= 2
    /\ Len(other.out) >= 1

(***************************************************************************)
(* The intersection tests of bbox, called one at a time on boxes and       *)
(* primitives of a small grid.                                             *)
(***************************************************************************)
\* A box without thickness along z, a box that is one point, and a box that
\* is empty by its x extent alone.
ThinBox == Box(Vec(0, 0, 0), Vec(2, 2, 0))
PointBox == Box(Vec(1, 1, 1), Vec(1, 1, 1))
InvertedBox == Box(Vec(3, 0, 0), Vec(1, 4, 4))

TestBoxes == BoxSet \cup {ThinBox, PointBox, InvertedBox}

Coords == -1..MaxCoord
GridPoints == {Vec(x, y, z) : x \in Coords, y \in Coords, z \in Coords}

\* vec3::inv() of a direction whose components are 0, +1 or -1: 1/0 is an
\* infinity of the zero's sign.  A direction along one axis is normalized; 
\* the inverse of a normalized diagonal has the same components scaled by
\* one factor, which scales every t alike.
InvComponents == {Fin(1), Fin(-1), PosInf, NegInf}
RayInvDirs == {d \in [1..3 -> InvComponents] : \E i \in 1..3 : ~isinf(d[i])}

\* The inverse directions of the rays parallel to axis i.
AlongAxis(d, i) == ~isinf(d[i]) /\ \A j \in 1..3 \ {i} : isinf(d[j])

\* The tests are pure: a behaviour makes one call and records it.
Untested == t_prim.kind = "none"

otherVars ==
    <<bvhVars, callVars, buildVars, histVars, queryVars, sortVars, funVars>>

TestPoint(b, pt) ==
    /\ t_box' = b
    /\ t_after' = b
    /\ t_prim' = [kind |-> "point", point |-> pt]
    /\ t_ret' = intersects_point(b, pt)
    /\ UNCHANGED otherVars

TestBox(b, box) ==
    /\ t_box' = b
    /\ t_after' = b
    /\ t_prim' = [kind |-> "box", box |-> box]
    /\ t_ret' = intersects_box(b, box)
    /\ UNCHANGED otherVars

TestSegment(b, seg_a, seg_b) ==
    /\ t_box' = b
    /\ t_after' = b
    /\ t_prim' = [kind |-> "segment", seg_a |-> seg_a, seg_b |-> seg_b]
    /\ t_ret' = intersects_segment(b, seg_a, seg_b)
    /\ UNCHANGED otherVars

\* The call the functor bvh::intersect_segment makes.
TestSegmentPrecalc(b, f) ==
    /\ t_box' = b
    /\ t_after' = b
    /\ t_prim' = [kind |-> "precalc", seg_a |-> SegA(f), seg_b |-> SegB(f)]
    /\ t_ret' = intersects_segment_precalc(b, f.d, f.seg_a_d, f.ad)
    /\ UNCHANGED otherVars

TestRay(b, origin, inv_norm_dir) ==
    /\ t_box' = b
    /\ t_after' = b
    /\ t_prim' = [kind |-> "ray", origin |-> origin, inv |-> inv_norm_dir]
    /\ t_ret' = intersects_ray(b, origin, inv_norm_dir)
    /\ UNCHANGED otherVars

\* box.expand(pt)
ExpandPoint(b, pt) ==
    /\ t_box' = b
    /\ t_prim' = [kind |-> "expand_pt", point |-> pt]
    /\ t_ret' = FALSE
    /\ t_after' = expand_pt(b, pt)
    /\ UNCHANGED otherVars

\* box.expand(box)
ExpandBox(b, box) ==
    /\ t_box' = b
    /\ t_prim' = [kind |-> "expand_box", box |-> box]
    /\ t_ret' = FALSE
    /\ t_after' = expand(b, box)
    /\ UNCHANGED otherVars

TestStep ==
    /\ Untested
    /\ \/ \E b \in TestBoxes, pt \in GridPoints : TestPoint(b, pt)
       \/ \E b \in TestBoxes, box \in TestBoxes : TestBox(b, box)
       \/ \E b \in TestBoxes, s \in Segments : TestSegment(b, s[1], s[2])
       \/ \E b \in TestBoxes, s \in Segments :
              TestSegmentPrecalc(b, intersect_segment(s[1], s[2]))
       \/ \E b \in TestBoxes, o \in GridPoints, d \in RayInvDirs :
              TestRay(b, o, d)
       \/ \E b \in TestBoxes, pt \in GridPoints : ExpandPoint(b, pt)
       \/ \E b \in TestBoxes, box \in TestBoxes : ExpandBox(b, box)

SpecBox == Init /\ [][TestStep]_vars

\* The calls that are intersection tests.
TestKinds == {"point", "box", "segment", "precalc", "ray"}

\* C14: every intersection test of bbox, intersects_segment_precalc
\* included, returns false when it is called on an empty box (min.x > max.x),
\* whatever the primitive.
C14_EmptyBoxNeverHit ==
    (t_prim.kind \in TestKinds /\ is_empty(t_box)) => ~t_ret

(***************************************************************************)
(* The boxes of the tree against the boxes of the input.                   *)
(***************************************************************************)
\* The smallest box around the non-empty boxes of a set; empty when there is
\* none.
UnionOfNonEmpty(bs) ==
    LET ne == {b \in bs : ~is_empty(b)}
        lo(i) == CHOOSE m \in {b.min_pt[i] : b \in ne} :
                     \A b \in ne : m <= b.min_pt[i]
        hi(i) == CHOOSE m \in {b.max_pt[i] : b \in ne} :
                     \A b \in ne : m >= b.max_pt[i]
    IN  IF ne = {} THEN EmptyBox
        ELSE Box([i \in 1..3 |-> lo(i)], [i \in 1..3 |-> hi(i)])

\* Two boxes with the same points: both empty, or the same corners.
SameBox(a, b) == (is_empty(a) /\ is_empty(b)) \/ a = b

\* The input boxes the leaves of the subtree at node k point to.
BoxesBelow(t, bx, k) ==
    {At(bx, At(t, j).num.low) :
        j \in {i \in k..(k + NodesBelow(t, k) - 1) : is_leaf(At(t, i))}}

\* generate() has computed the global box of its argument.
RootBoxKnown == pc \in {"sort", "emit"} \/ Built(1)

\* C15: empty input boxes contribute nothing to a union computed with
\* expand(box): the global box generate() computes, and the box of every node
\* it emits, is the union of the non-empty boxes among those it covers,
\* wherever the empty boxes stand in the vector.
C15_EmptyBoxesContributeNothing ==
    /\ RootBoxKnown =>
           SameBox(root_box, UnionOfNonEmpty({boxes.elems[i] : i \in 1..boxes.n}))
    /\ Built(1) =>
           \A k \in 0..(Len(tree) - 1) :
               SameBox(At(tree, k).box,
                       UnionOfNonEmpty(BoxesBelow(tree, boxes.elems, k)))

\* Every point of box b lies in box a.
Contains(a, b) ==
    \/ is_empty(b)
    \/ /\ ~is_empty(a)
       /\ \A i \in 1..3 : a.min_pt[i] <= b.min_pt[i] /\ b.max_pt[i] <= a.max_pt[i]

\* C16: after a successful generate() the box of every node contains
\* boxes[i] for every object i that a leaf of the node's subtree points to,
\* and the box of a leaf is exactly boxes[idx] for the index it stores.
C16_NodeBoxesContainLeaves ==
    Built(1) =>
        \A k \in 0..(Len(tree) - 1) :
            /\ \A bx \in BoxesBelow(tree, boxes.elems, k) :
                   Contains(At(tree, k).box, bx)
            /\ is_leaf(At(tree, k)) =>
                   At(tree, k).box = At(boxes.elems, At(tree, k).num.low)

\* A tree of three boxes with an inner node, not the root, over a leaf of
\* BoxA and a leaf of BoxB.
C16_Witness ==
    /\ Built(3)
    /\ \E k \in InternalNodes(tree) \ {0} :
           {BoxA, BoxB} \subseteq BoxesBelow(tree, boxes.elems, k)

\* generate() has returned from a call on an empty vector.
EmptyBuildDone == pc = "idle" /\ ret # "none" /\ boxes.n = 0

AllIdentical ==
    boxes.n >= 1 /\ \A i \in 1..boxes.n : boxes.elems[i] = boxes.elems[1]

\* C18: when all N >= 1 input boxes are identical, generate() produces a
\* valid tree, 2N - 1 nodes with every index 0..N-1 in exactly one leaf, and
\* a query whose predicate accepts that box yields all N indices.
C18_IdenticalBoxes ==
    (Built(1) /\ AllIdentical) =>
        /\ Len(tree) = 2 * boxes.n - 1
        /\ \A i \in 0..(boxes.n - 1) :
               Cardinality({k \in LeafNodes(tree) : At(tree, k).num.low = i}) = 1
        /\ (Drained(1) /\ call(intersects, boxes.elems[1])) =>
               /\ Len(q_out) = boxes.n
               /\ {q_out[i] : i \in 1..Len(q_out)} = 0..(boxes.n - 1)

\* The axes on which point p lies outside the closed extent of box b.
AxesOutside(b, p) == {i \in 1..3 : p[i] < b.min_pt[i] \/ p[i] > b.max_pt[i]}

\* Point p lies on the boundary of box b in every axis: it is a corner.
IsCorner(b, p) == \A i \in 1..3 : p[i] = b.min_pt[i] \/ p[i] = b.max_pt[i]

\* C19: intersects_point(p) is true exactly when min[i] <= p[i] <= max[i]
\* on each of the three axes; so the corners of a box are inside, and a point
\* beyond the box on a single axis is outside.
C19_PointTestIsClosedExtent ==
    t_prim.kind = "point" =>
        /\ t_ret <=> (AxesOutside(t_box, t_prim.point) = {})
        /\ (~is_empty(t_box) /\ IsCorner(t_box, t_prim.point)) => t_ret
        /\ Cardinality(AxesOutside(t_box, t_prim.point)) = 1 => ~t_ret

\* The test of a corner of BoxA, which is also a corner of BoxB.
C19_Witness ==
    /\ t_prim = [kind |-> "point", point |-> Vec(2, 2, 2)]
    /\ t_box = BoxA
    /\ t_ret

\* Box b is not entirely behind origin o for a ray along axis a with inverse
\* direction component s.
NotBehind(b, o, a, s) ==
    IF s > 0 THEN o[a] <= b.max_pt[a] ELSE o[a] >= b.min_pt[a]

\* C20: for a non-empty box and a ray parallel to a coordinate axis (inverse
\* direction +1 or -1 on that axis, infinite on the other two), intersects_ray
\* is true exactly when the origin lies within the closed extent of the box
\* on the two other axes and the box is not entirely behind the origin along
\* the ray.
C20_AxisParallelRay ==
    (t_prim.kind = "ray" /\ ~is_empty(t_box)) =>
        \A a \in 1..3 :
            AlongAxis(t_prim.inv, a) =>
                (t_ret <=>
                    /\ \A j \in (1..3) \ {a} :
                           /\ t_box.min_pt[j] <= t_prim.origin[j]
                           /\ t_prim.origin[j] <= t_box.max_pt[j]
                    /\ NotBehind(t_box, t_prim.origin, a, t_prim.inv[a].num))

\* A box without thickness along z, hit by a ray along +z that starts below
\* it on the line through one of its corners.
C20_Witness ==
    /\ t_box = ThinBox
    /\ t_prim = [kind |-> "ray", origin |-> Vec(2, 0, -1),
                 inv |-> <<PosInf, PosInf, Fin(1)>>]
    /\ t_ret

\* Both corners of a box lie in box b.
CornersInside(b, box) ==
    intersects_point(b, box.min_pt) /\ intersects_point(b, box.max_pt)

\* C21: expand(pt) on an empty box sets min = max = pt and makes the box
\* non-empty; on a non-empty box it lowers each min[i] to pt[i] and raises
\* each max[i] to pt[i] where pt lies beyond; expanding by a point or a box
\* already contained leaves the box as it was, and an empty box expanded by
\* a non-empty box becomes that box.
C21_ExpandExtends ==
    /\ t_prim.kind = "expand_pt" =>
           LET pt == t_prim.point
           IN  /\ is_empty(t_box) =>
                      (t_after = Box(pt, pt) /\ ~is_empty(t_after))
               /\ ~is_empty(t_box) =>
                      \A i \in 1..3 :
                          /\ t_after.min_pt[i] =
                                 (IF pt[i] < t_box.min_pt[i] THEN pt[i]
                                  ELSE t_box.min_pt[i])
                          /\ t_after.max_pt[i] =
                                 (IF pt[i] > t_box.max_pt[i] THEN pt[i]
                                  ELSE t_box.max_pt[i])
               /\ intersects_point(t_box, pt) => t_after = t_box
    /\ t_prim.kind = "expand_box" =>
           /\ (is_empty(t_box) /\ ~is_empty(t_prim.box)) => t_after = t_prim.box
           /\ (~is_empty(t_box) /\ CornersInside(t_box, t_prim.box)) =>
                  t_after = t_box

\* An empty box that became the one-point box of the point it was expanded by.
C21_Witness ==
    /\ t_box = EmptyBox
    /\ t_prim = [kind |-> "expand_pt", point |-> Vec(3, 3, 3)]
    /\ t_after = Box(Vec(3, 3, 3), Vec(3, 3, 3))

(***************************************************************************)
(* The Morton coder, called one function at a time.                        *)
(***************************************************************************)
restVars ==
    <<bvhVars, callVars, buildVars, histVars, queryVars, sortVars, testVars>>

\* A behaviour makes one call of a free function and records it.
Uncalled == f_call.kind = "none"

\* Arguments of expand_bits_30: every ten-bit value, under every pattern of
\* higher bits up to MaxHigh.
ExpandInputs == {lo + 1024 * h : lo \in 0..1023, h \in 0..MaxHigh}

\* Coordinates given to morton_encode_30: below, inside and above
\* [0, 1024), every single bit, values with a fraction, and the infinities.
MortonCoords ==
    {Ratio(Pow2(i), 1) : i \in 0..9}
        \cup {Ratio(-12, 1), Ratio(0, 1), Ratio(1, 2), Ratio(11, 1),
              Ratio(2047, 2), Ratio(1023, 1), Ratio(1030, 1),
              Ratio(1, 0), Ratio(-1, 0)}

ExpandBits(v) ==
    /\ f_call' = [kind |-> "expand_bits_30", v |-> v]
    /\ f_ret' = expand_bits_30(v)
    /\ UNCHANGED restVars

\* The conversion of a NaN does not arise: no argument is one.
MortonEncode(x, y, z) ==
    /\ f_call' = [kind |-> "morton_encode_30", x |-> x, y |-> y, z |-> z]
    /\ f_ret' = morton_encode_30(x, y, z, 0)
    /\ UNCHANGED restVars

MortonStep ==
    /\ Uncalled
    /\ \/ \E v \in ExpandInputs : ExpandBits(v)
       \/ \E x \in MortonCoords, y \in MortonCoords, z \in MortonCoords :
              MortonEncode(x, y, z)

SpecMorton == Init /\ [][MortonStep]_vars

\* Bit i of a natural number.
Bit(n, i) == (n \div Pow2(i)) % 2

\* A coordinate clamped to [0, 1023] and cut to a whole number; the
\* denominators of the coordinates are positive or zero.
ClampTrunc(r) ==
    IF r.den = 0 THEN (IF r.num > 0 THEN 1023 ELSE 0)
    ELSE IF r.num < 0 THEN 0
    ELSE IF r.num > 1023 * r.den THEN 1023
    ELSE r.num \div r.den

\* C22: morton_encode_30(x, y, z) clamps each coordinate to [0, 1023], cuts
\* it to a whole number and interleaves the three ten-bit values: bit i of
\* x, y, z is bit 3i+2, 3i+1, 3i of the result, which is below 2^30; and
\* expand_bits_30(v) puts bit i of v at bit 3i for i < 10 and nothing else,
\* so it depends on the low ten bits of v only.
C22_MortonInterleaves ==
    /\ f_call.kind = "morton_encode_30" =>
           /\ f_ret >= 0 /\ f_ret < Pow2(30)
           /\ \A i \in 0..9 :
                  /\ Bit(f_ret, 3 * i + 2) = Bit(ClampTrunc(f_call.x), i)
                  /\ Bit(f_ret, 3 * i + 1) = Bit(ClampTrunc(f_call.y), i)
                  /\ Bit(f_ret, 3 * i) = Bit(ClampTrunc(f_call.z), i)
    /\ f_call.kind = "expand_bits_30" =>
           /\ f_ret >= 0 /\ f_ret < Pow2(30)
           /\ \A i \in 0..9 :
                  /\ Bit(f_ret, 3 * i) = Bit(f_call.v, i)
                  /\ Bit(f_ret, 3 * i + 1) = 0
                  /\ Bit(f_ret, 3 * i + 2) = 0

\* The code of a point beyond the range on x, with a fraction on y and one
\* bit on z; 153391689 is the ten bits 3i, i < 10.
C22_Witness ==
    /\ f_call = [kind |-> "morton_encode_30", x |-> Ratio(1030, 1),
                 y |-> Ratio(2047, 2), z |-> Ratio(512, 1)]
    /\ f_ret = 4 * 153391689 + 2 * 153391689 + Pow2(27)

(***************************************************************************)
(* find_split, called on ranges of small entry vectors.                    *)
(***************************************************************************)
\* Morton codes that differ in a low bit, in the next bit, and in bit 29.
SplitKeys == {0, 1, 2, 3, Pow2(29)}

\* The entry vector of a sequence of codes: idx is the position.
EntriesOf(ks) == [i \in 1..Len(ks) |-> Obj(ks[i], i - 1)]

IsAscending(ks) == \A i \in 1..(Len(ks) - 1) : ks[i] <= ks[i + 1]

KeyVectors == UNION {[1..n -> SplitKeys] : n \in 2..MaxSplitLen}

LongSortedVectors ==
    UNION {{ks \in [1..n -> SplitKeys] : IsAscending(ks)} :
              n \in (MaxSplitLen + 1)..(MaxSplitLen + 2)}

FindSplit(ks, first, last) ==
    /\ first < last
    /\ f_call' = [kind |-> "find_split", keys |-> ks, first |-> first, last |-> last]
    /\ f_ret' = find_split(EntriesOf(ks), first, last)
    /\ UNCHANGED restVars

SplitStep ==
    /\ Uncalled
    /\ \/ \E ks \in KeyVectors :
              \E first, last \in 0..(Len(ks) - 1) : FindSplit(ks, first, last)
       \/ \E ks \in LongSortedVectors :
              \E first, last \in 0..(Len(ks) - 1) : FindSplit(ks, first, last)

SpecSplit == Init /\ [][SplitStep]_vars

\* The codes of the range a call of find_split was given are ascending.
RangeAscending ==
    \A i \in f_call.first..(f_call.last - 1) :
        At(f_call.keys, i) <= At(f_call.keys, i + 1)

\* The positions of [first, last) whose code shares more leading bits with
\* the first code than the last code does.
SharesMore ==
    LET kf == At(f_call.keys, f_call.first)
        common == count_leading_zeros(BitXor(kf, At(f_call.keys, f_call.last)))
    IN  {s \in f_call.first..(f_call.last - 1) :
            count_leading_zeros(BitXor(kf, At(f_call.keys, s))) > common}

\* C23: on a range [first, last] of entries ascending by code whose first
\* and last codes differ, find_split returns the largest s in [first, last)
\* with clz(code_first XOR code_s) > clz(code_first XOR code_last), whatever
\* the length of the range.
C23_SplitIsLastSharing ==
    (/\ f_call.kind = "find_split"
     /\ RangeAscending
     /\ At(f_call.keys, f_call.first) # At(f_call.keys, f_call.last)) =>
        /\ f_ret \in SharesMore
        /\ \A s \in SharesMore : s <= f_ret

\* A search over seven entries that moved the split off the first one.
C23_Witness ==
    /\ f_call.kind = "find_split"
    /\ RangeAscending
    /\ f_call.first = 0 /\ f_call.last = 6
    /\ At(f_call.keys, 0) # At(f_call.keys, 6)
    /\ f_ret = 4

\* C24: for any first < last and any codes, ascending or not, find_split
\* returns s with first <= s < last, so the ranges [first, s] and
\* [s+1, last] the builder recurses into are both non-empty and shorter
\* than [first, last].
C24_SplitInsideRange ==
    f_call.kind = "find_split" =>
        /\ f_call.first <= f_ret /\ f_ret < f_call.last
        /\ f_ret - f_call.first < f_call.last - f_call.first
        /\ f_call.last - (f_ret + 1) < f_call.last - f_call.first

\* A call on a range whose codes are not ascending.
C24_Witness ==
    /\ f_call.kind = "find_split"
    /\ ~RangeAscending
    /\ f_call.last - f_call.first >= 3
    /\ f_call.first <= f_ret /\ f_ret < f_call.last

(***************************************************************************)
(* Properties of a pass of the sort.                                       *)
(***************************************************************************)
\* The digit of this pass of the entry at position i of objs.
DigitAt(i) == digits(At(s_objs, i).code, s_shift, base - 1)

\* Thread t has left the offset loop and stands before its scatter loop.
BeforeScatter(t) == s_pc = "parallel" /\ s_at[t] = "scatter"

\* C25: in each pass, the position thread t starts writing digit d at is
\* the number of entries with a smaller digit plus the number of entries
\* with digit d in the chunks of the threads below t; and the chunk a
\* thread scatters is the contiguous chunk it counted.
C25_OffsetsPerWorker ==
    \A t \in Team :
        BeforeScatter(t) =>
            /\ \A d \in 0..(base - 1) :
                   s_local[t][d] =
                       Cardinality({i \in 0..(nobjs - 1) : DigitAt(i) < d})
                       + Cardinality({i \in 0..(ChunkFirst(t, nobjs, s_threads) - 1) :
                                         DigitAt(i) = d})
            /\ ScatterFirst(t) = ChunkFirst(t, nobjs, s_threads)
            /\ ScatterEnd(t) = ChunkFirst(t + 1, nobjs, s_threads)
            /\ ScatterFirst(t) <= ScatterEnd(t)

\* Two threads with one entry each, both of digit 0: the second starts one
\* position after the first.
C25_Witness ==
    /\ s_threads >= 2
    /\ nobjs = 2
    /\ BeforeScatter(0) /\ BeforeScatter(1)
    /\ DigitAt(0) = 0 /\ DigitAt(1) = 0
    /\ s_local[0][0] = 0 /\ s_local[1][0] = 1

\* C26: in every pass the auxiliary buffer holds N entries before the
\* scatter, every scatter write targets an index inside it, and after the
\* swap of objs and buffer the entry vector still has N entries.
C26_BufferHoldsN ==
    /\ \A t \in Team :
           BeforeScatter(t) => (Len(s_buffer) = nobjs /\ ScatterInBounds(t))
    /\ s_pc \in {"serial", "parallel", "done"} => Len(s_objs) = nobjs

\* Thread t has added its counts to bucket in this pass.
HasAdded(t) == s_at[t] \notin {"count", "critical"}

\* Thread t is in its offset loop, past the barrier that follows the prefix
\* sum: it reads bucket, or is about to.
ReadsBucket(t) ==
    \/ s_at[t] = "update"
    \/ s_at[t] = "turn" /\ (t \notin s_waiting \/ s_barriers[t] > 0)

\* C27: within a pass the prefix sum runs only after every thread has added
\* its counts to the global histogram, no thread reads the global histogram
\* for its offsets before the prefix sum is done, and objs and buffer are
\* swapped only after every thread has left its scatter loop.
C27_PhasesInOrder ==
    /\ [](s_pc = "parallel" =>
            /\ s_single => \A t \in Team : HasAdded(t)
            /\ \A t \in Team :
                   ReadsBucket(t) =>
                       (s_single /\ \A u \in Team : s_at[u] # "single"))
    /\ [][s_shift' # s_shift => \A t \in Team : s_at[t] = "end"]_vars

\* A team of three in its offset loop: the middle thread updates bucket.
C27_Witness ==
    /\ s_pc = "parallel"
    /\ s_threads = 3
    /\ nobjs = 2
    /\ s_single
    /\ s_at[1] = "update"

(***************************************************************************)
(* The cursor of a query.                                                  *)
(***************************************************************************)
\* What a call of next() would do from where the query stands: the nodes it
\* reads, those of them the predicate rejects, and the cursor it leaves.
ThisCall == next(tree, intersects, next_node, {}, {})

\* C28: through any sequence of next() and reset() calls the cursor stays
\* within 0..len(tree); a call of next() reads only nodes inside the tree,
\* moves the cursor by 1 past a node it accepts and by subtree_size() >= 1
\* past a node it rejects, never beyond the end, and evaluates the predicate
\* at most len(tree) times.
C28_CursorInBounds ==
    /\ 0 <= next_node
    /\ next_node <= Len(tree)
    /\ (q_live /\ pc = "idle") =>
           LET r == ThisCall
               After(k) == IF k \in r.missed
                           THEN k + subtree_size(At(tree, k))
                           ELSE k + 1
           IN  /\ r.tested \subseteq next_node..(Len(tree) - 1)
               /\ Cardinality(r.tested) <= Len(tree)
               /\ next_node <= r.next_node
               /\ r.next_node <= Len(tree)
               /\ \A k \in r.tested :
                      /\ After(k) > k
                      /\ After(k) <= Len(tree)
                      /\ After(k) \in r.tested \/ After(k) = r.next_node

\* A drained query over a tree of three nodes whose root was rejected: the
\* cursor jumped by the root's subtree_size() and stands at the end.
C28_Witness ==
    /\ q_live
    /\ Len(tree) = 3
    /\ 0 \in q_missed
    /\ q_ret = "false"
    /\ next_node = Len(tree)

\* The buffer indices thread t's scatter loop writes, in order, from the
\* offsets the thread holds.
TargetsOf(t) ==
    scatter_targets(s_local[t], <<>>, [i \in 1..Len(s_objs) |-> s_objs[i].code],
                    s_shift, ScatterFirst(t), ScatterEnd(t))

\* C29: within a pass no two scatter writes, of one thread or of two, go to
\* the same index of buffer: each thread's writes are pairwise distinct, the
\* writes of two threads are disjoint, and the N writes of the whole team
\* are the N indices 0..N-1.
C29_ScatterTargetsDistinct ==
    /\ \A t \in Team : BeforeScatter(t) =>
           /\ Len(TargetsOf(t)) = ScatterEnd(t) - ScatterFirst(t)
           /\ Cardinality(Entries(TargetsOf(t))) = Len(TargetsOf(t))
    /\ \A t \in Team : \A u \in Team \ {t} :
           (BeforeScatter(t) /\ BeforeScatter(u)) =>
               Entries(TargetsOf(t)) \cap Entries(TargetsOf(u)) = {}
    /\ (s_pc = "parallel" /\ \A t \in Team : s_at[t] = "scatter") =>
           UNION {Entries(TargetsOf(t)) : t \in Team} = 0..(nobjs - 1)
    /\ \A t \in Team : \A u \in Team \ {t} :
           Entries(s_targets[t]) \cap Entries(s_targets[u]) = {}

\* A team of three before its scatter loops over two entries of equal key:
\* the first two threads write one entry each, to different indices.
C29_Witness ==
    /\ s_threads = 3
    /\ nobjs = 2
    /\ \A t \in Team : BeforeScatter(t)
    /\ s_in[1].code = s_in[2].code
    /\ TargetsOf(0) = <<0>>
    /\ TargetsOf(1) = <<1>>
    /\ TargetsOf(2) = <<>>

\* <<T-1, T-2, ..., T-n>>: the first n threads to take their turn.
TurnOrder(n) == [i \in 1..n |-> s_threads - i]

\* Thread t has its turn behind it.
HasUpdated(t) == \E i \in 1..Len(s_order) : s_order[i] = t

\* Some thread of the team can take a step, or the team has left the region.
CanGoOn ==
    \/ \E t \in Team : s_at[t] # "end" /\ t \notin s_waiting
    \/ s_waiting = Team
    \/ \A t \in Team : s_at[t] = "end"

\* C30: in the offset loop of a pass with T threads every thread passes
\* exactly T-1 barriers and none is left waiting; at most one thread is in
\* its update of bucket at a time, and the threads update in the order
\* T-1, T-2, ..., 0, thread t after thread t+1 has finished and before
\* thread t-1 begins.
C30_OffsetTurnsInOrder ==
    s_pc = "parallel" =>
        /\ \A t \in Team : s_barriers[t] <= s_threads - 1
        /\ \A t \in Team : s_at[t] \in {"scatter", "end"} =>
               (s_barriers[t] = s_threads - 1 /\ HasUpdated(t))
        /\ Cardinality(s_inupdate) <= 1
        /\ s_order = TurnOrder(Len(s_order))
        /\ \A t \in s_inupdate :
               /\ s_at[t] = "update"
               /\ s_order = TurnOrder(s_threads - 1 - t)
        /\ CanGoOn

\* A team of three: thread 2 has updated, thread 1 is in its update, and
\* thread 0 waits in its second barrier.
C30_Witness ==
    /\ s_pc = "parallel"
    /\ s_threads = 3
    /\ nobjs = 2
    /\ s_order = <<2>>
    /\ s_inupdate = {1}
    /\ s_barriers[0] = 2
    /\ 0 \in s_waiting

=============================================================================
